---- MODULE Spec2Model ----
(***************************************************************************)
(* The prize-wheel Spinner widget (components/Spinner.tsx and the earlier  *)
(* copy inside components/LiquedGalas.tsx).                                *)
(*                                                                         *)
(* Angles are kept on a fixed-point grid of half degrees, so that the      *)
(* slice centres (i*45 + 22.5 degrees) are integers: 360 degrees = 720     *)
(* units, 22.5 degrees = 45 units.  Every value the code computes from     *)
(* grid values with +, -, * and % stays on the grid, and JavaScript        *)
(* evaluates those operations exactly on such values.                      *)
(*                                                                         *)
(* Two execution contexts appear in the code: the press handler `spin`     *)
(* and the caller's onStop run on the JS context; the interpolation        *)
(* frames and the completion callback of withTiming run on the animation   *)
(* context, which hands onStop over with runOnJS.  That hand-over is a     *)
(* message in flight (jsQueue).                                            *)
(***************************************************************************)
EXTENDS Integers, Sequences, FiniteSets, TLC

VARIABLES
    props,      \* the props of the latest render
    data,       \* useMemo: the normalized item sequence of the latest render
    rotation,   \* rotation.value, in half degrees
    anims,      \* the interpolations driving rotation (records)
    jsQueue,    \* onStop calls handed to the JS context by runOnJS, not yet run
    spinLog,    \* history: one record per press of SPIN
    stopLog,    \* history: one record per invocation of onStop
    finished,   \* history: ids of the spins whose interpolation reached its target
    renders,    \* history: number of re-renders with changed props
    two,        \* two Spinner instances mounted side by side
    geo,        \* a call of a slice-path helper: its angles and the path returned
    home        \* the home dashboard: useState query and activeFilter

\* the state outside the single widget
auxVars == <<two, geo, home>>

vars == <<props, data, rotation, anims, jsQueue, spinLog, stopLog, finished, renders,
          auxVars>>

----------------------------------------------------------------------------
(* Bounds of the model *)

MaxSpins == 2       \* presses of SPIN in one behaviour
NumFrames == 2      \* frames of one interpolation (the last one lands on toValue)
MaxRenders == 1     \* re-renders with changed props in one behaviour
RandomGrid == 16    \* Math.random() yields u / RandomGrid, u in 0..RandomGrid-1
MaxItemsLen == 9    \* longest items prop enumerated exhaustively
MaxPrior == 720     \* prior rotations -MaxPrior..MaxPrior (half degrees) are enumerated
MaxHighlight == 2   \* highlightIndex ranges over -MaxHighlight..7+MaxHighlight
MaxExtraSpins == 8  \* numbers of extra full spins 0..MaxExtraSpins
MaxTwoSpins == 2    \* presses of SPIN on the two instances together
GeoDivs == 36       \* a full turn is cut into GeoDivs steps for the path helpers
MaxQueryLen == 3    \* longest text of the search box

----------------------------------------------------------------------------
(* Units and JavaScript arithmetic *)

\* d degrees on the half-degree grid
HalfDeg(d) == 2 * d

\* JavaScript's % : the remainder takes the sign of the dividend
JsRem(a, b) == IF a >= 0 THEN a % b ELSE -((-a) % b)

----------------------------------------------------------------------------
(* Constants of the component *)

NULL == "null"

\* highlightIndex is null, or a number h held as <<h>>
NoHighlight == <<>>

SEGMENTS == 8
segAngle == HalfDeg(360) \div SEGMENTS
spins == 5

DEFAULT_ITEMS == <<"1", NULL, "2", NULL, "3", NULL, "4", NULL>>

DefaultProps ==
    [items |-> DEFAULT_ITEMS, onStop |-> TRUE, highlightIndex |-> NoHighlight,
     showCenterStar |-> TRUE, tapered |-> TRUE, size |-> 260]

----------------------------------------------------------------------------
(* data = useMemo(...): pad with null up to SEGMENTS, cut to SEGMENTS *)

\* variant: the empty slots are put in front (unshift instead of push)
RECURSIVE padNullFront(_)
padNullFront(filled) ==
    IF Len(filled) < SEGMENTS THEN padNullFront(<<NULL>> \o filled) ELSE filled

RECURSIVE padNull(_)
padNull(filled) ==
    IF Len(filled) < SEGMENTS THEN padNull(Append(filled, NULL)) ELSE filled

\* Array.prototype.slice(0, n)
sliceTo(s, n) == [i \in 1..(IF Len(s) < n THEN Len(s) ELSE n) |-> s[i]]

normalizeData(items) ==
    IF Len(items) # SEGMENTS
    THEN sliceTo(padNull(items), SEGMENTS)
    ELSE items

----------------------------------------------------------------------------
(* spin: the landing computation *)

\* variant: only the slots that hold an item in DEFAULT_ITEMS (the even ones)
chooseTargetFilled(u) == 2 * ((u * (SEGMENTS \div 2)) \div RandomGrid)

\* Math.floor(Math.random() * SEGMENTS), Math.random() = u / RandomGrid
chooseTarget(u) == (u * SEGMENTS) \div RandomGrid

\* variant: spin starts from the target of the interpolation in flight
readPendingTarget(r, live) ==
    IF live = {} THEN r ELSE (CHOOSE a \in live : TRUE).toValue

\* the read of rotation.value in spin: the live value of the shared value
readRotation(r, live) == r

\* variant: the remainder is used without being brought into [0,360)
currentAngleSigned(r) == JsRem(r, HalfDeg(360))

\* variant: 360 is added, but the second remainder is not taken
currentAngleNoWrap(r) == JsRem(r, HalfDeg(360)) + HalfDeg(360)

\* ((rotation.value % 360) + 360) % 360
currentAngle(r) == JsRem(JsRem(r, HalfDeg(360)) + HalfDeg(360), HalfDeg(360))

\* variant: the leading edge of the slice instead of its centre
targetEdgeFromZero(targetIndex) == targetIndex * segAngle

\* targetIndex * segAngle + segAngle / 2
targetCenterFromZero(targetIndex) == targetIndex * segAngle + segAngle \div 2

\* variant: the sum is brought back into (0,360]
baseDeltaShortest(r, targetIndex) ==
    ((currentAngle(r) + targetCenterFromZero(targetIndex) - 1) % HalfDeg(360)) + 1

\* current + targetCenterFromZero
baseDelta(r, targetIndex) == currentAngle(r) + targetCenterFromZero(targetIndex)

\* variant: the wheel is turned clockwise
spinToValueClockwise(r, targetIndex) ==
    r + baseDelta(r, targetIndex) + spins * HalfDeg(360)

\* variant: the extra spins are counted in slices, not in turns
spinToValueSliceSpins(r, targetIndex, extraSpins) ==
    r - baseDelta(r, targetIndex) - extraSpins * segAngle

\* rotation.value - baseDelta - spins * 360, for a given number of spins
spinToValueWith(r, targetIndex, extraSpins) ==
    r - baseDelta(r, targetIndex) - extraSpins * HalfDeg(360)

\* rotation.value - baseDelta - spins * 360
spinToValue(r, targetIndex) == spinToValueWith(r, targetIndex, spins)

----------------------------------------------------------------------------
(* withTiming: interpolation and completion callback *)

Cube(x) == x * x * x

\* value of the interpolation at frame t: from + (to - from) * Easing.out(cubic)(t/NumFrames)
easedValue(from, to, t) ==
    IF t >= NumFrames THEN to
    ELSE from - ((from - to) * (Cube(NumFrames) - Cube(NumFrames - t))) \div Cube(NumFrames)

\* variant: the item is read from the latest render's data
animationCallbackLatestData(a, isFinished, dataNow) ==
    IF isFinished /\ a.onStop
    THEN <<[id |-> a.id, index |-> a.targetIndex, item |-> dataNow[a.targetIndex + 1]]>>
    ELSE <<>>

\* variant: the finished flag is tested the wrong way round
animationCallbackInverted(a, isFinished, dataNow) ==
    IF ~isFinished /\ a.onStop
    THEN <<[id |-> a.id, index |-> a.targetIndex, item |-> a.data[a.targetIndex + 1]]>>
    ELSE <<>>

\* variant: the finished flag is not tested
animationCallbackUnguarded(a, isFinished, dataNow) ==
    IF a.onStop
    THEN <<[id |-> a.id, index |-> a.targetIndex, item |-> a.data[a.targetIndex + 1]]>>
    ELSE <<>>

\* the callback passed to withTiming: the onStop calls it hands to runOnJS
animationCallback(a, isFinished, dataNow) ==
    IF isFinished /\ a.onStop
    THEN <<[id |-> a.id, index |-> a.targetIndex, item |-> a.data[a.targetIndex + 1]]>>
    ELSE <<>>

\* an interpolation that is replaced runs its callback with finished = false
RECURSIVE cancelCalls(_, _)
cancelCalls(replaced, dataNow) ==
    IF replaced = {} THEN <<>>
    ELSE LET c == CHOOSE x \in replaced : TRUE
         IN animationCallback(c, FALSE, dataNow) \o cancelCalls(replaced \ {c}, dataNow)

\* variant: the animation in flight keeps running beside the new one
assignAnimationKeepsOld(current, a) == current \cup {a}

\* rotation.value = withTiming(...): the shared value takes the new animation
\* in place of the one it holds
assignAnimation(current, a) == {a}

\* variant: the interpolation stops on its last eased value, short of toValue
restingValueShort(a) == easedValue(a.from, a.toValue, NumFrames - 1)

\* variant: the value is wrapped into [0,360) when the interpolation ends
restingValueWrapped(a) == currentAngle(a.toValue)

\* what the shared value holds after the last frame of an interpolation
restingValue(a) == a.toValue

----------------------------------------------------------------------------
(* The earlier wheel (components/LiquedGalas.tsx): its data and its spin *)

SEGMENTSPlain == 8
segAnglePlain == HalfDeg(360) \div SEGMENTSPlain

\* while (filled.length < SEGMENTS) filled.push(null)
RECURSIVE padNullPlain(_)
padNullPlain(filled) ==
    IF Len(filled) < SEGMENTSPlain THEN padNullPlain(Append(filled, NULL)) ELSE filled

\* data = useMemo(...)
normalizeDataPlain(items) ==
    IF Len(items) # SEGMENTSPlain
    THEN sliceTo(padNullPlain(items), SEGMENTSPlain)
    ELSE items

\* Math.floor(Math.random() * SEGMENTS)
chooseTargetPlain(u) == (u * SEGMENTSPlain) \div RandomGrid

\* variant: 4 full rotations for flair
spinToValuePlainFourSpins(r, targetIndex) ==
    LET current == JsRem(JsRem(r, HalfDeg(360)) + HalfDeg(360), HalfDeg(360))
        targetCenter == targetIndex * segAnglePlain + segAnglePlain \div 2
    IN r - (current + targetCenter) - 4 * HalfDeg(360)

\* current, targetCenterFromZero, baseDelta, spins and toValue of spin
spinToValuePlain(r, targetIndex) ==
    LET current == JsRem(JsRem(r, HalfDeg(360)) + HalfDeg(360), HalfDeg(360))
        targetCenterFromZeroPlain == targetIndex * segAnglePlain + segAnglePlain \div 2
        baseDeltaPlain == current + targetCenterFromZeroPlain
        spinsPlain == 5
    IN r - baseDeltaPlain - spinsPlain * HalfDeg(360)

\* the callback passed to withTiming
animationCallbackPlain(a, isFinished, dataNow) ==
    IF isFinished /\ a.onStop
    THEN <<[id |-> a.id, index |-> a.targetIndex, item |-> a.data[a.targetIndex + 1]]>>
    ELSE <<>>

----------------------------------------------------------------------------
(* Slice geometry.  Lengths are on a grid of 1/1000 px.  The angle of a point
   is on a grid of 1/24 degree (Fine), on which the mid angle of a slice and a
   third of its width are whole numbers. *)

Px(x) == 1000 * x
Fine(a) == 12 * a
FullTurn == Fine(HalfDeg(360))

Max(a, b) == IF a >= b THEN a ELSE b
Min(a, b) == IF a <= b THEN a ELSE b

\* radius = size / 2, innerRadius = radius * 0.58
radiusOf(size) == Px(size) \div 2
innerRadiusOf(size) == (radiusOf(size) * 58) \div 100

gapDeg == HalfDeg(4)

\* the point at distance r from (cx, cy) in direction angleDeg - 90; cos and sin
\* have period 360, so the direction is kept modulo a full turn
polarToCartesian(cx, cy, r, angleFine) ==
    [cx |-> cx, cy |-> cy, r |-> r,
     dir |-> (angleFine - Fine(HalfDeg(90))) % FullTurn]

\* variant: a span of exactly 180 degrees takes the large arc
largeArcFlagStrict(startAngle, endAngle) ==
    IF endAngle - startAngle < HalfDeg(180) THEN 0 ELSE 1

\* endAngle - startAngle <= 180 ? 0 : 1
largeArcFlag(startAngle, endAngle) ==
    IF endAngle - startAngle <= HalfDeg(180) THEN 0 ELSE 1

donutSlicePath(cx, cy, rOuter, rInner, startAngle, endAngle) ==
    LET largeArc == largeArcFlag(startAngle, endAngle)
        inset == ((rOuter - rInner) * 5) \div 100
        rOuterInset == rOuter - inset
        rInnerInset == rInner + inset
        p1 == polarToCartesian(cx, cy, rOuterInset, Fine(endAngle))
        p2 == polarToCartesian(cx, cy, rOuterInset, Fine(startAngle))
        p3 == polarToCartesian(cx, cy, rInnerInset, Fine(startAngle))
        p4 == polarToCartesian(cx, cy, rInnerInset, Fine(endAngle))
    IN << [cmd |-> "M", to |-> p1],
          [cmd |-> "A", r |-> rOuterInset, largeArc |-> largeArc, sweep |-> 0, to |-> p2],
          [cmd |-> "L", to |-> p3],
          [cmd |-> "A", r |-> rInnerInset, largeArc |-> largeArc, sweep |-> 1, to |-> p4],
          [cmd |-> "Z"] >>

\* donutSlicePath of the earlier wheel: no inset of the radii
donutSlicePathPlain(cx, cy, rOuter, rInner, startAngle, endAngle) ==
    LET largeArc == largeArcFlag(startAngle, endAngle)
        p1 == polarToCartesian(cx, cy, rOuter, Fine(endAngle))
        p2 == polarToCartesian(cx, cy, rOuter, Fine(startAngle))
        p3 == polarToCartesian(cx, cy, rInner, Fine(startAngle))
        p4 == polarToCartesian(cx, cy, rInner, Fine(endAngle))
    IN << [cmd |-> "M", to |-> p1],
          [cmd |-> "A", r |-> rOuter, largeArc |-> largeArc, sweep |-> 0, to |-> p2],
          [cmd |-> "L", to |-> p3],
          [cmd |-> "A", r |-> rInner, largeArc |-> largeArc, sweep |-> 1, to |-> p4],
          [cmd |-> "Z"] >>

\* mid = (startAngle + endAngle) / 2, on the Fine grid
wedgeMid(startAngle, endAngle) == Fine(startAngle + endAngle) \div 2

\* variant: Math.max in place of Math.min
wedgeTipEpsMax(startAngle, endAngle) ==
    Max(Fine(HalfDeg(8)), Fine(endAngle - startAngle) \div 3)

\* tipEps = Math.min(8, (endAngle - startAngle) / 3), on the Fine grid
wedgeTipEps(startAngle, endAngle) ==
    Min(Fine(HalfDeg(8)), Fine(endAngle - startAngle) \div 3)

roundedWedgePath(cx, cy, rOuter, tipRadius, startAngle, endAngle) ==
    LET largeArc == largeArcFlag(startAngle, endAngle)
        pStart == polarToCartesian(cx, cy, rOuter, Fine(startAngle))
        pEnd == polarToCartesian(cx, cy, rOuter, Fine(endAngle))
        mid == wedgeMid(startAngle, endAngle)
        tipEps == wedgeTipEps(startAngle, endAngle)
        tipRight == polarToCartesian(cx, cy, tipRadius, mid - tipEps \div 2)
        tipLeft == polarToCartesian(cx, cy, tipRadius, mid + tipEps \div 2)
    IN << [cmd |-> "M", to |-> pEnd],
          [cmd |-> "A", r |-> rOuter, largeArc |-> largeArc, sweep |-> 0, to |-> pStart],
          [cmd |-> "L", to |-> tipRight],
          [cmd |-> "A", r |-> tipRadius, largeArc |-> 0, sweep |-> 1, to |-> tipLeft],
          [cmd |-> "L", to |-> pEnd],
          [cmd |-> "Z"] >>

\* the wedge or donut slice between two angles, as slices and the highlight
\* overlay draw it
slicePath(size, tapered, startAngle, endAngle) ==
    LET radius == radiusOf(size) IN
    IF tapered
    THEN roundedWedgePath(radius, radius, radius - Px(6),
                          Max(Px(6), (radius * 6) \div 100), startAngle, endAngle)
    ELSE donutSlicePath(radius, radius, radius - Px(6), innerRadiusOf(size),
                        startAngle, endAngle)

\* for (let i = 0; i < 8; i++)
SliceCount == 8

\* variant: the whole gap is taken off the start of the slice
sliceStartFullGap(i) == i * segAngle + gapDeg

\* start = segStart + gapDeg / 2
sliceStart(i) == i * segAngle + gapDeg \div 2

\* end = segEnd - gapDeg / 2
sliceEnd(i) == (i * segAngle + segAngle) - gapDeg \div 2

\* slices = useMemo(...) of the tapered/gapped wheel; entry i + 1 is slice i
slices(size, tapered) ==
    [n \in 1..SliceCount |->
        [path |-> slicePath(size, tapered, sliceStart(n - 1), sliceEnd(n - 1)),
         fill |-> IF (n - 1) % 2 = 0 THEN "#F1F2F3" ELSE "rgba(131, 145, 161, 1)"]]

\* slices = useMemo(...) of the earlier wheel: no gap, plain donut slices
slicesPlain(size) ==
    [n \in 1..SliceCount |->
        LET start == (n - 1) * segAngle
            end == start + segAngle
            radius == radiusOf(size)
        IN [path |-> donutSlicePathPlain(radius, radius, radius - Px(4),
                                         innerRadiusOf(size), start, end),
            fill |-> IF (n - 1) % 2 = 0 THEN "#ffffff" ELSE "#E8EDF6"]]

\* variant: the label sits on the leading edge of its slice
iconMidAngleEdge(i) == i * segAngle

\* midAngle = i * segAngle + segAngle / 2
iconMidAngle(i) == i * segAngle + segAngle \div 2

\* r = tapered ? radius * 0.64 : (radius + innerRadius) / 2
iconRadius(size, tapered) ==
    IF tapered THEN (radiusOf(size) * 64) \div 100
    ELSE (radiusOf(size) + innerRadiusOf(size)) \div 2

\* iconPositions = useMemo(...); entry i + 1 is the position for slice i
iconPositions(size, tapered) ==
    [n \in 1..SliceCount |->
        polarToCartesian(radiusOf(size), radiusOf(size), iconRadius(size, tapered),
                         Fine(iconMidAngle(n - 1)))]

\* data.map(...): one label per item that is not null, centred on its icon
\* position (left = p.x - 12, top = p.y - 12)
labels(d, size, tapered) ==
    [n \in {k \in 1..Len(d) : d[k] # NULL} |->
        [label |-> d[n], at |-> iconPositions(size, tapered)[n]]]

\* the highlighted wedge overlay: drawn when highlightIndex is a number >= 0
highlightOverlay(p) ==
    IF p.highlightIndex # NoHighlight /\ p.highlightIndex[1] >= 0
    THEN [kind |-> "path",
          path |-> slicePath(p.size, p.tapered, sliceStart(p.highlightIndex[1]),
                             sliceEnd(p.highlightIndex[1]))]
    ELSE [kind |-> "none"]

----------------------------------------------------------------------------
(* Inputs *)

ItemValues == {NULL, "a", "b"}

ShortItems == <<"k", NULL, "bag">>
LongItems == <<"a", "b", "c", "d", "e", "f", "g", "h", "i">>

PropsInputs ==
    { DefaultProps,
      [DefaultProps EXCEPT !.onStop = FALSE],
      [DefaultProps EXCEPT !.items = ShortItems, !.highlightIndex = <<2>>,
                           !.showCenterStar = FALSE, !.tapered = FALSE,
                           !.size = 330] }

RandomInputs == 0..(RandomGrid - 1)

SizeInputs == {60, 100, 200, 260, 330}

\* highlightIndex: null, the slices, and numbers on both sides of 0..7
HighlightInputs ==
    {NoHighlight} \cup {<<h>> : h \in (0 - MaxHighlight)..(SEGMENTS - 1 + MaxHighlight)}

SliceProps ==
    {[DefaultProps EXCEPT !.size = sz, !.tapered = t, !.highlightIndex = h] :
        sz \in SizeInputs, t \in BOOLEAN, h \in HighlightInputs}

\* angles handed to the path helpers: GeoDivs equal steps of a full turn, the
\* slice boundaries with and without gap, and the two sides of 180 degrees
GeoAngles ==
    {(k * HalfDeg(360)) \div GeoDivs : k \in 0..GeoDivs}
    \cup {i * segAngle : i \in 0..SEGMENTS}
    \cup {sliceStart(i) : i \in 0..(SEGMENTS - 1)}
    \cup {sliceEnd(i) : i \in 0..(SEGMENTS - 1)}
    \cup {HalfDeg(180) - 1, HalfDeg(180), HalfDeg(180) + 1}

GeoInputs ==
    {[startAngle |-> pr[1], endAngle |-> pr[2], path |-> <<>>, helper |-> "none"] :
        pr \in {q \in GeoAngles \X GeoAngles : q[1] <= q[2]}}

\* items props of every length 0..MaxItemsLen
ItemSeqs == UNION {[1..n -> ItemValues] : n \in 0..MaxItemsLen}

\* prior rotation values: every residue of a full turn with both signs, and
\* large accumulated magnitudes (7383.5, -912, +-360000.5 degrees)
RotationInputs ==
    (-MaxPrior..MaxPrior) \cup {14767, -1824, 720001, -720001}

----------------------------------------------------------------------------
(* The state outside the single widget, before anything has acted on it *)

\* a Spinner instance right after mount
InstanceInit == [rotation |-> 0, anims |-> {}, jsQueue |-> <<>>, stops |-> <<>>, presses |-> 0]

\* two mounted instances; actor is the instance that acted last (history)
TwoInit == [cells |-> [c \in 1..2 |-> InstanceInit], actor |-> 0]

GeoInit == [startAngle |-> 0, endAngle |-> 0, path |-> <<>>, helper |-> "none"]

\* useState('') and useState('All Videos'); the text is a sequence of characters
HomeInit == [query |-> <<>>, activeFilter |-> "All Videos"]

widgetVars == <<props, data, rotation, anims, jsQueue, spinLog, stopLog, finished, renders>>

----------------------------------------------------------------------------
(* The widget *)

Init ==
    /\ props = DefaultProps
    /\ data = normalizeData(DefaultProps.items)
    /\ rotation = 0
    /\ anims = {}
    /\ jsQueue = <<>>
    /\ spinLog = <<>>
    /\ stopLog = <<>>
    /\ finished = {}
    /\ renders = 0
    /\ two = TwoInit
    /\ geo = GeoInit
    /\ home = HomeInit

\* variant: the shared value is created anew on every render
RenderResetsRotation(p) ==
    /\ renders < MaxRenders
    /\ p # props
    /\ props' = p
    /\ data' = normalizeData(p.items)
    /\ renders' = renders + 1
    /\ rotation' = 0
    /\ UNCHANGED <<anims, jsQueue, spinLog, stopLog, finished, auxVars>>

\* a re-render with new props: useMemo recomputes data; the shared value is kept
Render(p) ==
    /\ renders < MaxRenders
    /\ p # props
    /\ props' = p
    /\ data' = normalizeData(p.items)
    /\ renders' = renders + 1
    /\ UNCHANGED <<rotation, anims, jsQueue, spinLog, stopLog, finished, auxVars>>

\* onPress={spin}, Math.random() = u / RandomGrid
SpinWith(u, maxSpins) ==
    /\ Len(spinLog) < maxSpins
    /\ LET targetIndex == chooseTarget(u)
           toValue == spinToValue(readRotation(rotation, anims), targetIndex)
           a == [id |-> Len(spinLog) + 1, from |-> rotation, frame |-> 0,
                 toValue |-> toValue, targetIndex |-> targetIndex,
                 data |-> data, onStop |-> props.onStop]
           live == assignAnimation(anims, a)
       IN /\ anims' = live
          /\ jsQueue' = jsQueue \o cancelCalls(anims \ live, data)
          /\ spinLog' = Append(spinLog,
                 [targetIndex |-> targetIndex, rotationAt |-> rotation,
                  toValue |-> toValue, data |-> data, onStop |-> props.onStop,
                  inFlight |-> anims # {}])
    /\ UNCHANGED <<props, data, rotation, stopLog, finished, renders, auxVars>>

Spin == \E u \in RandomInputs : SpinWith(u, MaxSpins)

\* one frame of a live interpolation; the last frame lands on toValue and runs
\* the completion callback with finished = true
Frame ==
    \E a \in anims :
        LET t == a.frame + 1 IN
        IF t >= NumFrames
        THEN /\ rotation' = restingValue(a)
             /\ anims' = anims \ {a}
             /\ finished' = finished \cup {a.id}
             /\ jsQueue' = jsQueue \o animationCallback(a, TRUE, data)
             /\ UNCHANGED <<props, data, spinLog, stopLog, renders, auxVars>>
        ELSE /\ rotation' = easedValue(a.from, a.toValue, t)
             /\ anims' = (anims \ {a}) \cup {[a EXCEPT !.frame = t]}
             /\ UNCHANGED <<props, data, jsQueue, spinLog, stopLog, finished, renders,
                            auxVars>>

\* the JS context runs the onStop call that runOnJS handed over
CallOnStop ==
    /\ jsQueue # <<>>
    /\ stopLog' = Append(stopLog,
           [id |-> Head(jsQueue).id, index |-> Head(jsQueue).index,
            item |-> Head(jsQueue).item, rotationAt |-> rotation])
    /\ jsQueue' = Tail(jsQueue)
    /\ UNCHANGED <<props, data, rotation, anims, spinLog, finished, renders, auxVars>>

Next ==
    \/ \E p \in PropsInputs : Render(p)
    \/ Spin
    \/ Frame
    \/ CallOnStop

Spec == Init /\ [][Next]_vars

\* the animation driver keeps producing frames while an interpolation is live,
\* and the JS context runs every call handed to it
SpecLive == Init /\ [][Next]_vars /\ WF_vars(Frame) /\ WF_vars(CallOnStop)

----------------------------------------------------------------------------
(* The landing computation applied once to an arbitrary prior rotation *)

InitLanding ==
    /\ props = DefaultProps
    /\ data = normalizeData(DefaultProps.items)
    /\ rotation \in RotationInputs
    /\ anims = {}
    /\ jsQueue = <<>>
    /\ spinLog = <<>>
    /\ stopLog = <<>>
    /\ finished = {}
    /\ renders = 0
    /\ two = TwoInit
    /\ geo = GeoInit
    /\ home = HomeInit

SpinOnce == \E u \in RandomInputs : SpinWith(u, 1)

NextLanding ==
    \/ SpinOnce
    \/ Frame
    \/ CallOnStop

SpecLanding == InitLanding /\ [][NextLanding]_vars

----------------------------------------------------------------------------
(* The widget mounted with an arbitrary items prop *)

InitData ==
    /\ props \in {[DefaultProps EXCEPT !.items = s] : s \in ItemSeqs}
    /\ data = normalizeData(props.items)
    /\ rotation = 0
    /\ anims = {}
    /\ jsQueue = <<>>
    /\ spinLog = <<>>
    /\ stopLog = <<>>
    /\ finished = {}
    /\ renders = 0
    /\ two = TwoInit
    /\ geo = GeoInit
    /\ home = HomeInit

NextData == \E p \in PropsInputs : Render(p)

SpecData == InitData /\ [][NextData]_vars

----------------------------------------------------------------------------
(* One spin of the widget, its props changing only while the wheel is
   spinning *)

\* mounted with any of the props
InitCapture ==
    /\ props \in PropsInputs
    /\ data = normalizeData(props.items)
    /\ rotation = 0
    /\ anims = {}
    /\ jsQueue = <<>>
    /\ spinLog = <<>>
    /\ stopLog = <<>>
    /\ finished = {}
    /\ renders = 0
    /\ two = TwoInit
    /\ geo = GeoInit
    /\ home = HomeInit

\* a re-render with new props while an interpolation is live
RenderInFlight(p) == anims # {} /\ Render(p)

NextCapture ==
    \/ \E p \in PropsInputs : RenderInFlight(p)
    \/ SpinOnce
    \/ Frame
    \/ CallOnStop

SpecCapture == InitCapture /\ [][NextCapture]_vars

----------------------------------------------------------------------------
(* Two Spinner instances, both with the default props.  The hooks of the
   component (useSharedValue, useCallback) are called in the component
   function, so each instance holds its own cell of hook state. *)

\* variant: the shared value is created once at module level
instanceCellModule(w) == 1

\* the cell of hook state that instance w reads and writes
instanceCell(w) == w

TwoPresses == two.cells[1].presses + two.cells[2].presses

\* onPress={spin} on instance w
TwoSpin(w, u) ==
    /\ TwoPresses < MaxTwoSpins
    /\ LET c == instanceCell(w)
           cell == two.cells[c]
           targetIndex == chooseTarget(u)
           a == [id |-> cell.presses + 1, from |-> cell.rotation, frame |-> 0,
                 toValue |-> spinToValue(readRotation(cell.rotation, cell.anims), targetIndex),
                 targetIndex |-> targetIndex,
                 data |-> normalizeData(DefaultProps.items),
                 onStop |-> DefaultProps.onStop]
           live == assignAnimation(cell.anims, a)
       IN two' = [cells |-> [two.cells EXCEPT ![c] =
                      [cell EXCEPT !.anims = live,
                                   !.jsQueue = cell.jsQueue \o
                                       cancelCalls(cell.anims \ live, a.data),
                                   !.presses = cell.presses + 1]],
                  actor |-> w]
    /\ UNCHANGED <<widgetVars, geo, home>>

\* one frame of the interpolation of instance w
TwoFrame(w) ==
    /\ LET c == instanceCell(w)
           cell == two.cells[c]
       IN \E a \in cell.anims :
              LET t == a.frame + 1 IN
              two' = [cells |-> [two.cells EXCEPT ![c] =
                         IF t >= NumFrames
                         THEN [cell EXCEPT !.rotation = restingValue(a),
                                           !.anims = cell.anims \ {a},
                                           !.jsQueue = cell.jsQueue \o
                                               animationCallback(a, TRUE, a.data)]
                         ELSE [cell EXCEPT !.rotation = easedValue(a.from, a.toValue, t),
                                           !.anims = (cell.anims \ {a}) \cup
                                                         {[a EXCEPT !.frame = t]}]],
                      actor |-> w]
    /\ UNCHANGED <<widgetVars, geo, home>>

\* the JS context runs an onStop call of instance w
TwoCallOnStop(w) ==
    /\ LET c == instanceCell(w)
           cell == two.cells[c]
       IN /\ cell.jsQueue # <<>>
          /\ two' = [cells |-> [two.cells EXCEPT ![c] =
                         [cell EXCEPT !.stops = Append(cell.stops, Head(cell.jsQueue)),
                                      !.jsQueue = Tail(cell.jsQueue)]],
                     actor |-> w]
    /\ UNCHANGED <<widgetVars, geo, home>>

NextTwo ==
    \/ \E w \in 1..2 : \E u \in RandomInputs : TwoSpin(w, u)
    \/ \E w \in 1..2 : TwoFrame(w)
    \/ \E w \in 1..2 : TwoCallOnStop(w)

SpecTwo == Init /\ [][NextTwo]_vars

----------------------------------------------------------------------------
(* The widget mounted with an arbitrary size, shape and highlightIndex *)

InitSlices ==
    /\ props \in SliceProps
    /\ data = normalizeData(props.items)
    /\ rotation = 0
    /\ anims = {}
    /\ jsQueue = <<>>
    /\ spinLog = <<>>
    /\ stopLog = <<>>
    /\ finished = {}
    /\ renders = 0
    /\ two = TwoInit
    /\ geo = GeoInit
    /\ home = HomeInit

NextSlices == \E p \in PropsInputs : Render(p)

SpecSlices == InitSlices /\ [][NextSlices]_vars

----------------------------------------------------------------------------
(* One spin of a widget mounted with an arbitrary size and shape, its props
   changing at any time *)

NextLabels ==
    \/ \E p \in PropsInputs : Render(p)
    \/ SpinOnce
    \/ Frame
    \/ CallOnStop

SpecLabels == InitSlices /\ [][NextLabels]_vars

----------------------------------------------------------------------------
(* The path helpers called once with arbitrary angles, at the default size *)

InitGeometry ==
    /\ props = DefaultProps
    /\ data = normalizeData(DefaultProps.items)
    /\ rotation = 0
    /\ anims = {}
    /\ jsQueue = <<>>
    /\ spinLog = <<>>
    /\ stopLog = <<>>
    /\ finished = {}
    /\ renders = 0
    /\ two = TwoInit
    /\ geo \in GeoInputs
    /\ home = HomeInit

DrawDonut ==
    /\ geo.helper = "none"
    /\ geo' = [geo EXCEPT
                 !.helper = "donutSlicePath",
                 !.path = donutSlicePath(radiusOf(props.size), radiusOf(props.size),
                                         radiusOf(props.size) - Px(6),
                                         innerRadiusOf(props.size),
                                         geo.startAngle, geo.endAngle)]
    /\ UNCHANGED <<widgetVars, two, home>>

DrawDonutPlain ==
    /\ geo.helper = "none"
    /\ geo' = [geo EXCEPT
                 !.helper = "donutSlicePathPlain",
                 !.path = donutSlicePathPlain(radiusOf(props.size), radiusOf(props.size),
                                              radiusOf(props.size) - Px(4),
                                              innerRadiusOf(props.size),
                                              geo.startAngle, geo.endAngle)]
    /\ UNCHANGED <<widgetVars, two, home>>

DrawWedge ==
    /\ geo.helper = "none"
    /\ geo' = [geo EXCEPT
                 !.helper = "roundedWedgePath",
                 !.path = roundedWedgePath(radiusOf(props.size), radiusOf(props.size),
                                           radiusOf(props.size) - Px(6),
                                           Max(Px(6), (radiusOf(props.size) * 6) \div 100),
                                           geo.startAngle, geo.endAngle)]
    /\ UNCHANGED <<widgetVars, two, home>>

NextGeometry ==
    \/ DrawDonut
    \/ DrawDonutPlain
    \/ DrawWedge

SpecGeometry == InitGeometry /\ [][NextGeometry]_vars

----------------------------------------------------------------------------
(* The home dashboard (HomeScreen with search box, filter chips and card grid) *)

\* the cards of the dashboard with icons; the icon component is left out
FEATURE_CARDS ==
    << [key |-> "all", title |-> "All Videos", count |-> 23],
       [key |-> "folders", title |-> "Folders", count |-> 8],
       [key |-> "photos", title |-> "Photos", count |-> 156],
       [key |-> "notes", title |-> "Notes", count |-> 12] >>

\* the cards of the dashboard with emoji
FEATURE_CARDS_EMOJI ==
    << [key |-> "all", title |-> "All Videos", emoji |-> "camera", count |-> 23],
       [key |-> "folders", title |-> "Folders", emoji |-> "folder", count |-> 8],
       [key |-> "photos", title |-> "Photos", emoji |-> "picture", count |-> 156],
       [key |-> "notes", title |-> "Notes", emoji |-> "memo", count |-> 12] >>

FILTERS == <<"All Videos", "Folders", "Photos", "Notes">>

\* cards.filter(c => c.key === key)
filterByKey(cards, key) ==
    LET hasKey(c) == c.key = key IN SelectSeq(cards, hasKey)

\* variant: the default case filters on the key 'all'
filteredCardsAllKey(activeFilter) ==
    CASE activeFilter = "Folders" -> filterByKey(FEATURE_CARDS, "folders")
      [] activeFilter = "Photos" -> filterByKey(FEATURE_CARDS, "photos")
      [] activeFilter = "Notes" -> filterByKey(FEATURE_CARDS, "notes")
      [] OTHER -> filterByKey(FEATURE_CARDS, "all")

\* filteredCards = useMemo(...): the switch on activeFilter
filteredCards(activeFilter) ==
    CASE activeFilter = "Folders" -> filterByKey(FEATURE_CARDS, "folders")
      [] activeFilter = "Photos" -> filterByKey(FEATURE_CARDS, "photos")
      [] activeFilter = "Notes" -> filterByKey(FEATURE_CARDS, "notes")
      [] OTHER -> FEATURE_CARDS

\* filteredCards of the dashboard with emoji
filteredCardsEmoji(activeFilter) ==
    CASE activeFilter = "Folders" -> filterByKey(FEATURE_CARDS_EMOJI, "folders")
      [] activeFilter = "Photos" -> filterByKey(FEATURE_CARDS_EMOJI, "photos")
      [] activeFilter = "Notes" -> filterByKey(FEATURE_CARDS_EMOJI, "notes")
      [] OTHER -> FEATURE_CARDS_EMOJI

\* the chips drawn as active: active={activeFilter === f}
activeChips == {n \in 1..Len(FILTERS) : home.activeFilter = FILTERS[n]}

\* the texts the search box can hold
QueryChars == {"a", "b", "c"}
QueryInputs == UNION {[1..n -> QueryChars] : n \in 0..MaxQueryLen}

\* onPress={() => setActiveFilter(f)}
PressChip(f) ==
    /\ home' = [home EXCEPT !.activeFilter = f]
    /\ UNCHANGED <<widgetVars, two, geo>>

\* onChangeText={setQuery}
ChangeText(text) ==
    /\ home' = [home EXCEPT !.query = text]
    /\ UNCHANGED <<widgetVars, two, geo>>

NextHome ==
    \/ \E n \in 1..Len(FILTERS) : PressChip(FILTERS[n])
    \/ \E text \in QueryInputs : ChangeText(text)

SpecHome == Init /\ [][NextHome]_vars

----------------------------------------------------------------------------
(* Vocabulary of the properties *)

\* the angular centre of slice i, clockwise on the wheel: i*45 + 22.5 degrees
SliceCenter(i) == i * HalfDeg(45) + 45

\* x is a whole number of turns
WholeTurns(x) == x % HalfDeg(360) = 0

\* ((t mod 360) + 360) mod 360 with the truncating remainder
Normalized(t) == JsRem(JsRem(t, HalfDeg(360)) + HalfDeg(360), HalfDeg(360))

Spins == 1..Len(spinLog)
AtRest == anims = {}

----------------------------------------------------------------------------
(* C1: for every prior rotation (zero, positive, negative, large) and every
   target index 0..7, the rotation target set by spin plus the target slice's
   centre is a whole number of turns, and the wheel at rest after that spin
   has the slice centre under the pointer at 0 degrees. *)
C1_CenterUnderPointer ==
    /\ \A k \in Spins :
           WholeTurns(spinLog[k].toValue + SliceCenter(spinLog[k].targetIndex))
    /\ \A a \in anims : WholeTurns(a.toValue + SliceCenter(a.targetIndex))
    /\ (AtRest /\ spinLog # <<>>) =>
           WholeTurns(rotation + SliceCenter(spinLog[Len(spinLog)].targetIndex))

\* a wheel that started from a large positive rotation rests on slice 5
C1_Witness ==
    /\ AtRest
    /\ spinLog # <<>>
    /\ spinLog[1].rotationAt = 14767
    /\ spinLog[1].targetIndex = 5
    /\ rotation = spinLog[1].toValue

(* C2 as stated: the rotation target, normalized into [0,360), equals the
   target slice's centre targetIndex*45 + 22.5 (mod 360); for r = 0, target 3
   the normalized resting angle is 157.5. *)
C2_NormalizedIsCenter ==
    \A k \in Spins :
        Normalized(spinLog[k].toValue)
            = SliceCenter(spinLog[k].targetIndex) % HalfDeg(360)

(* C2 amended: the rotation target, normalized into [0,360), equals 360 minus
   the target slice's centre, whatever the prior rotation; for r = 0, target 3
   the normalized resting angle is 202.5 (360 - 157.5). *)
C2_NormalizedIsMinusCenter ==
    \A k \in Spins :
        /\ Normalized(spinLog[k].toValue)
               = (HalfDeg(360) - SliceCenter(spinLog[k].targetIndex)) % HalfDeg(360)
        /\ (spinLog[k].rotationAt = 0 /\ spinLog[k].targetIndex = 3)
               => Normalized(spinLog[k].toValue) = 405

\* the scenario of the claim: prior rotation 0, target 3
C2_Witness ==
    /\ spinLog # <<>>
    /\ spinLog[1].rotationAt = 0
    /\ spinLog[1].targetIndex = 3
    /\ Normalized(spinLog[1].toValue) = 405

(* C3: the rotation target equals the rotation at the press minus delta, with
   delta = current + targetCenter + 5*360, current the rotation brought into
   [0,360) and targetCenter = targetIndex*45 + 22.5; prior rotation 0 and
   target 3 give delta 1957.5 and target -1957.5. *)
C3_TargetIsRotationMinusDelta ==
    \A k \in Spins :
        LET r == spinLog[k].rotationAt
            delta == (r % HalfDeg(360)) + SliceCenter(spinLog[k].targetIndex)
                         + 5 * HalfDeg(360)
        IN /\ spinLog[k].toValue = r - delta
           /\ (r = 0 /\ spinLog[k].targetIndex = 3) =>
                  (delta = 3915 /\ spinLog[k].toValue = -3915)

\* a press at a negative prior rotation (-912 degrees)
C3_Witness ==
    /\ spinLog # <<>>
    /\ spinLog[1].rotationAt = -1824
    /\ spinLog[1].targetIndex = 7
    /\ \E a \in anims : a.id = 1 /\ a.toValue = spinLog[1].toValue

----------------------------------------------------------------------------
(* More vocabulary *)

\* number of entries of log q that belong to spin id
RECURSIVE CountId(_, _)
CountId(q, id) ==
    IF q = <<>> THEN 0
    ELSE (IF Head(q).id = id THEN 1 ELSE 0) + CountId(Tail(q), id)

LastSpin == spinLog[Len(spinLog)]

\* the rotation target the contract gives for a press at rotation r on slice i
ContractTarget(r, i) ==
    r - ((r % HalfDeg(360)) + SliceCenter(i) + 5 * HalfDeg(360))

\* a press of SPIN whose random draw selects slice i
SpinTo(i) ==
    \E u \in RandomInputs : chooseTarget(u) = i /\ SpinWith(u, MaxSpins)

----------------------------------------------------------------------------
(* C4: the index passed to onStop is the target index chosen when that spin
   was requested, and the item passed is the element at that index of the
   normalized item sequence of that request; this holds of the calls handed
   over to the JS context as well as of the calls made, whatever the wheel's
   rotation is by then. *)
C4_StopReportsChosenTarget ==
    /\ \A n \in 1..Len(stopLog) :
           /\ stopLog[n].id \in Spins
           /\ stopLog[n].index = spinLog[stopLog[n].id].targetIndex
           /\ stopLog[n].item = spinLog[stopLog[n].id].data[stopLog[n].index + 1]
    /\ \A n \in 1..Len(jsQueue) :
           /\ jsQueue[n].id \in Spins
           /\ jsQueue[n].index = spinLog[jsQueue[n].id].targetIndex
           /\ jsQueue[n].item = spinLog[jsQueue[n].id].data[jsQueue[n].index + 1]

\* onStop(3, item[3]) has been called, item[3] being an empty slot
C4_Witness ==
    /\ AtRest
    /\ Len(stopLog) = 1
    /\ stopLog[1].index = 3
    /\ stopLog[1].item = NULL
    /\ spinLog[stopLog[1].id].targetIndex = 3

(* C5: onStop is invoked at most once for each spin, only for a spin whose
   interpolation reached its target, and a spin that finished with an onStop
   supplied has exactly one onStop call, made or handed over to the JS
   context. *)
C5_StopOncePerFinishedSpin ==
    /\ \A id \in Spins : CountId(stopLog, id) <= 1
    /\ \A n \in 1..Len(stopLog) : stopLog[n].id \in finished
    /\ \A n \in 1..Len(jsQueue) : jsQueue[n].id \in finished
    /\ \A id \in finished :
           spinLog[id].onStop => CountId(stopLog, id) + CountId(jsQueue, id) = 1
    /\ \A id \in Spins \ finished :
           CountId(stopLog, id) + CountId(jsQueue, id) = 0

\* the first spin was superseded in flight, the second finished and reported
C5_Witness ==
    /\ Len(spinLog) = 2
    /\ spinLog[2].inFlight
    /\ finished = {2}
    /\ jsQueue = <<>>
    /\ Len(stopLog) = 1
    /\ stopLog[1].id = 2

(* C6: a press while an interpolation is in flight computes its target from
   the live rotation value at the press, the new interpolation starts from
   that value and is the only one left, and the wheel at rest has the centre
   of the latest press's target slice under the pointer. *)
C6_RetargetFromLiveValue ==
    /\ \A k \in Spins :
           spinLog[k].inFlight =>
               spinLog[k].toValue = ContractTarget(spinLog[k].rotationAt, spinLog[k].targetIndex)
    /\ \A a \in anims :
           /\ a.id = Len(spinLog)
           /\ a.from = spinLog[a.id].rotationAt
           /\ a.toValue = spinLog[a.id].toValue
    /\ (AtRest /\ spinLog # <<>>) =>
           /\ rotation = LastSpin.toValue
           /\ WholeTurns(rotation + SliceCenter(LastSpin.targetIndex))

\* the second press came mid-flight, away from both ends of the first
\* interpolation, and the wheel has come to rest
C6_Witness ==
    /\ Len(spinLog) = 2
    /\ spinLog[2].inFlight
    /\ spinLog[2].rotationAt < spinLog[1].rotationAt
    /\ spinLog[2].rotationAt > spinLog[1].toValue
    /\ spinLog[2].targetIndex # spinLog[1].targetIndex
    /\ AtRest
    /\ rotation = spinLog[2].toValue

(* C7: the item sequence used by the wheel has exactly 8 entries; entry i is
   the i-th input element when the input has one, and an empty slot
   otherwise; an input of length 8 is used unchanged.  The sequence captured
   by a spin is such a sequence too. *)
C7_DataIsPaddedOrCut ==
    /\ Len(data) = 8
    /\ \A i \in 1..8 :
           data[i] = IF i <= Len(props.items) THEN props.items[i] ELSE NULL
    /\ Len(props.items) = 8 => data = props.items
    /\ \A a \in anims : Len(a.data) = 8

\* an input one longer than the wheel, cut to its first 8 elements
C7_Witness ==
    /\ Len(props.items) = 9
    /\ props.items[1] = "a"
    /\ props.items[2] = NULL
    /\ props.items[9] = "b"
    /\ data = [i \in 1..8 |-> props.items[i]]

(* C8: every target index chosen is an integer in 0..7, and whenever SPIN can
   be pressed every index 0..7 can be the one chosen, the empty slots
   included. *)
C8_EveryIndexPossible ==
    /\ \A k \in Spins : spinLog[k].targetIndex \in 0..7
    /\ Len(spinLog) < MaxSpins => \A i \in 0..7 : ENABLED SpinTo(i)

\* a spin that chose an empty slot and one that chose a slot with an item
C8_Witness ==
    /\ Len(spinLog) = 2
    /\ spinLog[1].targetIndex = 7
    /\ spinLog[1].data[8] = NULL
    /\ spinLog[2].targetIndex = 0
    /\ spinLog[2].data[1] # NULL

(* C9: every spin's target is strictly below the rotation value at the press,
   no step increases the rotation value, and the value at rest is the
   unwrapped target of the latest spin, never a value in [0,360). *)
C9_RotationOnlyDecreases ==
    /\ [](\A k \in Spins : spinLog[k].toValue < spinLog[k].rotationAt)
    /\ [][rotation' <= rotation]_vars
    /\ []((AtRest /\ spinLog # <<>>) =>
             (rotation = LastSpin.toValue /\ rotation \notin 0..(HalfDeg(360) - 1)))

\* two spins have run to their ends
C9_Witness ==
    /\ finished = {1, 2}
    /\ AtRest
    /\ rotation < spinLog[1].toValue

(* C10: the rotation is 0 at mount; a step that changes the props, the
   normalized items or the onStop record leaves the rotation unchanged; the
   rotation changes only in a step of a live interpolation started by a
   spin, toward that interpolation's target. *)
C10_RotationChangedOnlyBySpin ==
    /\ rotation = 0
    /\ [][(props' # props \/ data' # data \/ stopLog' # stopLog \/ renders' # renders)
             => rotation' = rotation]_vars
    /\ [][rotation' # rotation =>
             \E a \in anims : /\ a.id \in Spins
                               /\ a.toValue <= rotation'
                               /\ rotation' < rotation]_vars

\* every prop has changed and onStop has run while the wheel is away from 0
C10_Witness ==
    /\ props.items # DEFAULT_ITEMS
    /\ props.highlightIndex # NoHighlight
    /\ ~props.tapered
    /\ ~props.showCenterStar
    /\ props.size # DefaultProps.size
    /\ stopLog # <<>>
    /\ rotation < 0

----------------------------------------------------------------------------
(* Vocabulary of the geometric properties *)

\* the angle of a path point, clockwise from the pointer direction
PointAngle(pt) == (pt.dir + Fine(HalfDeg(90))) % FullTurn

\* a path starts at the end angle of its outer arc, which runs back to the
\* start angle
OuterEnd(path) == PointAngle(path[1].to)
OuterStart(path) == PointAngle(path[2].to)
OuterSpan(path) == (OuterEnd(path) - OuterStart(path)) % FullTurn

Closed(path) == path[1].cmd = "M" /\ path[Len(path)].cmd = "Z"

Arcs(path) == {n \in 1..Len(path) : path[n].cmd = "A"}

\* the flag the contract gives an arc of a slice from startAngle to endAngle
ContractFlag(startAngle, endAngle) ==
    IF endAngle - startAngle <= HalfDeg(180) THEN 0 ELSE 1

\* a list of 8 closed slices, slice i inset by gap/2 on both sides of the
\* sector from i*45 to (i+1)*45, the sectors partitioning the full turn
SliceListOK(list, gap) ==
    /\ Len(list) = 8
    /\ \A n \in 1..8 :
           /\ Closed(list[n].path)
           /\ OuterStart(list[n].path) = Fine((n - 1) * HalfDeg(45) + gap \div 2) % FullTurn
           /\ OuterEnd(list[n].path) = Fine(n * HalfDeg(45) - gap \div 2) % FullTurn
           /\ OuterSpan(list[n].path) + Fine(gap) = Fine(HalfDeg(45))
           /\ (OuterStart(list[n].path) + OuterSpan(list[n].path) \div 2) % FullTurn
                  = Fine(SliceCenter(n - 1))
    /\ \A a \in 0..(HalfDeg(360) - 1) :
           Cardinality({n \in 1..8 :
               (Fine(a) - (OuterStart(list[n].path) - Fine(gap \div 2))) % FullTurn
                   < OuterSpan(list[n].path) + Fine(gap)}) = 1

----------------------------------------------------------------------------
(* C11: the slice list holds exactly 8 closed paths; slice i runs from
   i*45 + gap/2 to (i+1)*45 - gap/2, gap = 4 degrees in the tapered/donut
   wheel and 0 in the earlier wheel; the un-inset sectors have width 45 and
   every angle of the full turn lies in exactly one of them; each inset is
   symmetric about the slice centre. *)
C11_SlicesPartitionTheTurn ==
    /\ SliceListOK(slices(props.size, props.tapered), HalfDeg(4))
    /\ SliceListOK(slicesPlain(props.size), 0)

\* a donut wheel of size 330: its last slice ends 2 degrees before the pointer
C11_Witness ==
    /\ ~props.tapered
    /\ props.size = 330
    /\ Len(slices(props.size, props.tapered)[8].path) = 5
    /\ OuterEnd(slices(props.size, props.tapered)[8].path) = Fine(HalfDeg(358))
    /\ OuterEnd(slicesPlain(props.size)[8].path) = 0

(* C13: a highlightIndex outside 0..7 that reaches the wheel's geometry is
   rejected with an error; it is never drawn or silently dropped. *)
C13_OutOfRangeRejected ==
    (props.highlightIndex # NoHighlight /\ props.highlightIndex[1] \notin 0..7)
        => highlightOverlay(props).kind = "error"

(* C20 as stated: every arc of a slice path, the tip arc of roundedWedgePath
   included, has large-arc flag 0 when endAngle - startAngle is at most 180
   degrees and 1 otherwise. *)
C20_FlagsFollowSliceSpan ==
    geo.helper # "none" =>
        \A n \in Arcs(geo.path) :
            geo.path[n].largeArc = ContractFlag(geo.startAngle, geo.endAngle)

(* C20 amended: the outer and inner arc of donutSlicePath and the outer arc
   of roundedWedgePath have large-arc flag 0 when endAngle - startAngle is at
   most 180 degrees and 1 otherwise; the tip arc of roundedWedgePath always
   has flag 0, and its own span is at most 8 degrees. *)
C20_FlagsFollowOwnSpan ==
    geo.helper # "none" =>
        /\ Arcs(geo.path) = {2, 4}
        /\ geo.path[2].largeArc = ContractFlag(geo.startAngle, geo.endAngle)
        /\ geo.helper # "roundedWedgePath" =>
               geo.path[4].largeArc = ContractFlag(geo.startAngle, geo.endAngle)
        /\ geo.helper = "roundedWedgePath" =>
               /\ geo.path[4].largeArc = 0
               /\ (geo.path[4].to.dir - geo.path[3].to.dir) % FullTurn
                      <= Fine(HalfDeg(8))

\* a wedge just wider than 180 degrees: large outer arc, small tip arc
C20_Witness ==
    /\ geo.helper = "roundedWedgePath"
    /\ geo.endAngle - geo.startAngle = HalfDeg(180) + 1
    /\ geo.path[2].largeArc = 1
    /\ geo.path[4].largeArc = 0

----------------------------------------------------------------------------
\* onStop has been invoked with the target index and item of spin k
Reported(k) ==
    \E n \in 1..Len(stopLog) :
        /\ stopLog[n].id = k
        /\ stopLog[n].index = spinLog[k].targetIndex
        /\ stopLog[n].item = spinLog[k].data[spinLog[k].targetIndex + 1]

(* C12: a spin request that is not followed by another one, made while an
   onStop callback is supplied, eventually has onStop invoked with that
   spin's target index and item, the animation frames and the JS context
   being allowed to run. *)
C12_LastSpinEventuallyReported ==
    \A k \in 1..MaxSpins :
        <>[](Len(spinLog) = k /\ spinLog[k].onStop)
            => <>(Len(spinLog) >= k /\ Reported(k))

\* a single spin ran to its end and reported slice 5, an empty slot
C12_Witness ==
    /\ Len(spinLog) = 1
    /\ spinLog[1].targetIndex = 5
    /\ AtRest
    /\ Len(stopLog) = 1
    /\ Reported(1)
    /\ stopLog[1].item = NULL

----------------------------------------------------------------------------
(* C15: with the constant 5 replaced by any number k >= 0 of extra full
   spins, the rotation target of a press differs from the one the code sets
   by (5 - k) whole turns, and the centre of the same slice rests under the
   pointer. *)
C15_ExtraSpinsAreCosmetic ==
    \A n \in Spins : \A k \in 0..MaxExtraSpins :
        LET t == spinToValueWith(spinLog[n].rotationAt, spinLog[n].targetIndex, k)
        IN /\ t - spinLog[n].toValue = (5 - k) * HalfDeg(360)
           /\ WholeTurns(t - spinLog[n].toValue)
           /\ WholeTurns(t + SliceCenter(spinLog[n].targetIndex))

\* a press at a large prior rotation, for which no extra spin at all would
\* still land on slice 2
C15_Witness ==
    /\ spinLog # <<>>
    /\ spinLog[1].rotationAt = 720001
    /\ spinLog[1].targetIndex = 2
    /\ WholeTurns(spinToValueWith(720001, 2, 0) + SliceCenter(2))
    /\ spinToValueWith(720001, 2, 0) # spinLog[1].toValue

----------------------------------------------------------------------------
(* C17: at most one interpolation of the rotation value is live, and it is
   the one of the latest press: a press in flight replaces the interpolation
   it finds, so the value is never driven toward two targets. *)
C17_OneLiveInterpolation ==
    /\ Cardinality(anims) <= 1
    /\ \A a \in anims :
           /\ a.id = Len(spinLog)
           /\ a.toValue = LastSpin.toValue

\* the second press replaced the first interpolation and has run one frame
C17_Witness ==
    /\ Len(spinLog) = 2
    /\ spinLog[2].inFlight
    /\ Cardinality(anims) = 1
    /\ \E a \in anims : a.id = 2 /\ a.frame = 1 /\ rotation < a.from

(* C18 as stated: whenever onStop(i, item) is invoked, the rotation value
   equals the target of the spin that chose i, and the centre of slice i is
   under the pointer. *)
C18_StopAtTarget ==
    \A n \in 1..Len(stopLog) :
        /\ stopLog[n].rotationAt = spinLog[stopLog[n].id].toValue
        /\ WholeTurns(stopLog[n].rotationAt + SliceCenter(stopLog[n].index))

(* C18 amended: when the completion callback hands onStop(i, item) to the JS
   context, the rotation value equals the target of the spin that chose i and
   the centre of slice i is under the pointer; this still holds when onStop
   runs, provided no later spin has been pressed by then.  The outcome is
   created only at the completion of the interpolation and is not kept by
   the widget once onStop has run. *)
C18_HandOverAtTarget ==
    /\ [][Len(jsQueue') > Len(jsQueue) =>
             LET e == jsQueue'[Len(jsQueue')]
             IN /\ rotation' = spinLog[e.id].toValue
                /\ WholeTurns(rotation' + SliceCenter(e.index))]_vars
    /\ [][(Len(stopLog') > Len(stopLog) /\ Head(jsQueue).id = Len(spinLog)) =>
             /\ rotation = spinLog[Head(jsQueue).id].toValue
             /\ WholeTurns(rotation + SliceCenter(Head(jsQueue).index))
             /\ stopLog'[Len(stopLog')].rotationAt = rotation]_vars
    /\ [](\A n \in 1..Len(jsQueue) : jsQueue[n].id \in finished)
    /\ [](\A n \in 1..Len(stopLog) : CountId(jsQueue, stopLog[n].id) = 0)

\* onStop of the first spin ran after a second spin had moved the wheel; onStop
\* of the second ran with the wheel on its target
C18_Witness ==
    /\ Len(spinLog) = 2
    /\ Len(stopLog) = 2
    /\ stopLog[1].id = 1
    /\ stopLog[1].rotationAt # spinLog[1].toValue
    /\ stopLog[2].id = 2
    /\ stopLog[2].rotationAt = spinLog[2].toValue

(* C19: the base delta of a spin, current + targetCenterFromZero, is greater
   than 0 and at most 360 degrees. *)
C19_BaseDeltaIsShortest ==
    \A k \in Spins :
        /\ baseDelta(spinLog[k].rotationAt, spinLog[k].targetIndex) > 0
        /\ baseDelta(spinLog[k].rotationAt, spinLog[k].targetIndex) <= HalfDeg(360)

----------------------------------------------------------------------------
\* what instance w shows and reports: its rotation value, its pending
\* interpolation, its pending and delivered outcomes
InstanceView(w) == two.cells[instanceCell(w)]

(* C14: a step of one Spinner instance (a press of SPIN, a frame of its
   interpolation, its onStop call) leaves the other instance's rotation
   value, pending target and outcomes unchanged. *)
C14_InstancesShareNothing ==
    [][\A w \in 1..2 :
          two'.actor = w => InstanceView(3 - w)' = InstanceView(3 - w)]_vars

\* both instances have spun once, rest on different slices and have reported
C14_Witness ==
    /\ InstanceView(1).presses = 1
    /\ InstanceView(2).presses = 1
    /\ InstanceView(1).anims = {}
    /\ InstanceView(2).anims = {}
    /\ InstanceView(1).rotation # InstanceView(2).rotation
    /\ Len(InstanceView(1).stops) = 1
    /\ Len(InstanceView(2).stops) = 1
    /\ InstanceView(1).stops[1].index # InstanceView(2).stops[1].index

----------------------------------------------------------------------------
(* C21: the normalization ((x % 360) + 360) % 360 of spin, % being the
   truncating remainder, yields a value in [0,360) for every rotation value
   a spin reads (positive, negative, zero) and for the rotation value of
   every state, and normalizing a normalized value returns it unchanged. *)
C21_NormalizationInRange ==
    \A x \in {rotation} \cup {spinLog[k].rotationAt : k \in Spins} :
        /\ currentAngle(x) >= 0
        /\ currentAngle(x) < HalfDeg(360)
        /\ currentAngle(currentAngle(x)) = currentAngle(x)
        /\ WholeTurns(x - currentAngle(x))

\* a spin read a negative rotation (-912 degrees), whose truncating remainder
\* is negative (-192 degrees) and whose normalization is 168 degrees
C21_Witness ==
    /\ spinLog # <<>>
    /\ spinLog[1].rotationAt = -1824
    /\ JsRem(spinLog[1].rotationAt, HalfDeg(360)) = -384
    /\ currentAngle(spinLog[1].rotationAt) = 336
    /\ rotation < -1824

----------------------------------------------------------------------------
\* the spins whose interpolation was replaced by a later press before it
\* reached its target
Superseded == {id \in Spins : id < Len(spinLog) /\ id \notin finished}

\* nothing is in flight: no interpolation is live and no onStop call is pending
Settled == AtRest /\ jsQueue = <<>>

(* C22: a spin superseded by a later press before it finished never has an
   onStop call, made or pending, and its interpolation is gone for good;
   onStop calls, made and pending together, never outnumber the presses;
   once the wheel has settled, the last onStop made is that of the latest
   press that had an onStop callback and finished, which is the most recent
   press whenever that press had an onStop callback. *)
C22_SupersededNeverReports ==
    /\ \A id \in Superseded :
           /\ CountId(stopLog, id) = 0
           /\ CountId(jsQueue, id) = 0
           /\ \A a \in anims : a.id # id
    /\ Len(stopLog) + Len(jsQueue) <= Len(spinLog)
    /\ (Settled /\ spinLog # <<>> /\ LastSpin.onStop) =>
           /\ stopLog # <<>>
           /\ stopLog[Len(stopLog)].id = Len(spinLog)
           /\ stopLog[Len(stopLog)].index = LastSpin.targetIndex
    /\ (Settled /\ stopLog # <<>>) =>
           \A id \in finished :
               spinLog[id].onStop => id <= stopLog[Len(stopLog)].id

\* the first spin was superseded after one frame by a press for another slice;
\* the wheel has settled on the second target and only the second spin reported
C22_Witness ==
    /\ Len(spinLog) = 2
    /\ Superseded = {1}
    /\ spinLog[2].rotationAt < spinLog[1].rotationAt
    /\ spinLog[2].targetIndex # spinLog[1].targetIndex
    /\ Settled
    /\ rotation = spinLog[2].toValue
    /\ Len(stopLog) = 1
    /\ stopLog[1].id = 2
    /\ stopLog[1].index = spinLog[2].targetIndex

----------------------------------------------------------------------------
(* C23: the item of an onStop call, pending or made, is the element at the
   target index of the normalized item sequence as it was when the spin was
   requested; a live interpolation keeps the sequence of its request, and a
   re-render that changes the items while the wheel is spinning changes
   neither the live interpolation nor the pending calls. *)
C23_ItemOfTheRequest ==
    /\ [](\A n \in 1..Len(stopLog) :
              LET s == spinLog[stopLog[n].id]
              IN stopLog[n].item = s.data[s.targetIndex + 1])
    /\ [](\A n \in 1..Len(jsQueue) :
              LET s == spinLog[jsQueue[n].id]
              IN jsQueue[n].item = s.data[s.targetIndex + 1])
    /\ [](\A a \in anims : a.data = spinLog[a.id].data)
    /\ [][data' # data =>
             /\ anims' = anims
             /\ jsQueue' = jsQueue
             /\ spinLog' = spinLog]_vars

\* the items changed while the only spin was in flight: it reported the item
\* "1" of the sequence of its request, where the new sequence holds "k"
C23_Witness ==
    /\ Len(spinLog) = 1
    /\ renders = 1
    /\ spinLog[1].data = normalizeData(DEFAULT_ITEMS)
    /\ data = normalizeData(ShortItems)
    /\ finished = {1}
    /\ Len(stopLog) = 1
    /\ stopLog[1].index = 0
    /\ stopLog[1].item = "1"
    /\ data[1] = "k"

----------------------------------------------------------------------------
(* C24: every spin turns the wheel counter-clockwise by more than 5 and less
   than 7 full turns: the rotation value at the press minus the new target
   lies in [1822.5, 2497.5] degrees, for every rotation value and every
   target index. *)
C24_TurnsBetweenFiveAndSeven ==
    \A k \in Spins :
        LET turned == spinLog[k].rotationAt - spinLog[k].toValue
        IN /\ turned > 5 * HalfDeg(360)
           /\ turned < 7 * HalfDeg(360)
           /\ turned >= 3645
           /\ turned <= 4995

\* the two ends: from -0.5 degrees to slice 7 the wheel turns 2497 degrees
\* (current is 359.5); a press that finds current = 0 and draws slice 0 would
\* turn it 1822.5 degrees
C24_Witness ==
    /\ spinLog # <<>>
    /\ spinLog[1].rotationAt = -1
    /\ spinLog[1].targetIndex = 7
    /\ spinLog[1].rotationAt - spinLog[1].toValue = 4994
    /\ rotation = spinLog[1].toValue
    /\ 0 - spinToValue(0, 0) = 3645

----------------------------------------------------------------------------
(* Vocabulary of the label properties *)

\* the angle on the screen, clockwise from the pointer, of a point of the
\* wheel turned by rot (transform: rotate(rot deg))
ScreenAngle(pt, rot) == (PointAngle(pt) + Fine(rot)) % FullTurn

\* the labels drawn for item sequence d that are under the pointer when the
\* wheel is turned by rot
LabelsUnderPointer(d, p, rot) ==
    {labels(d, p.size, p.tapered)[n].label :
        n \in {k \in DOMAIN labels(d, p.size, p.tapered) :
                  ScreenAngle(labels(d, p.size, p.tapered)[k].at, rot) = 0}}

\* what is seen under the pointer when item it rests there: its label, or
\* nothing for an empty slot
LabelOf(it) == IF it = NULL THEN {} ELSE {it}

\* label i is drawn at the centre of slice i, the angle spin aligns with the
\* pointer for target i; the labels follow index order clockwise from the
\* pointer, each inside its own slice; a label is drawn for the items that
\* are not null
LabelsAtSliceCenters ==
    /\ \A i \in 0..7 :
           LET at == iconPositions(props.size, props.tapered)[i + 1]
               slice == slicePath(props.size, props.tapered, sliceStart(i), sliceEnd(i))
           IN /\ PointAngle(at) = Fine(SliceCenter(i))
              /\ PointAngle(at) = Fine(targetCenterFromZero(i))
              /\ OuterStart(slice) < PointAngle(at)
              /\ PointAngle(at) < OuterStart(slice) + OuterSpan(slice)
              /\ i < 7 => PointAngle(at)
                              < PointAngle(iconPositions(props.size, props.tapered)[i + 2])
    /\ DOMAIN labels(data, props.size, props.tapered) = {n \in 1..8 : data[n] # NULL}
    /\ \A n \in DOMAIN labels(data, props.size, props.tapered) :
           /\ labels(data, props.size, props.tapered)[n].label = data[n]
           /\ labels(data, props.size, props.tapered)[n].at
                  = iconPositions(props.size, props.tapered)[n]

(* C25 as stated: label i is drawn at the centre of slice i, the angle spin
   aligns with the pointer, in index order clockwise from the pointer, so
   that whenever onStop(i, item) is invoked the label under the pointer is
   the label of the reported item. *)
C25_ReportedLabelUnderPointer ==
    /\ []LabelsAtSliceCenters
    /\ [][Len(stopLog') > Len(stopLog) =>
             LabelsUnderPointer(data, props, rotation) = LabelOf(Head(jsQueue).item)]_vars

(* C25 amended: label i is drawn at the centre of slice i, the angle spin
   aligns with the pointer, in index order clockwise from the pointer; when
   the completion callback hands onStop(i, item) over, the position of
   label i is under the pointer, and the label there is the label of the
   reported item provided the items are still those of the spin's request
   (nothing is drawn there for an empty slot). *)
C25_ReportedSlotUnderPointer ==
    /\ []LabelsAtSliceCenters
    /\ [][Len(jsQueue') > Len(jsQueue) =>
             LET e == jsQueue'[Len(jsQueue')]
             IN /\ ScreenAngle(iconPositions(props'.size, props'.tapered)[e.index + 1],
                               rotation') = 0
                /\ data' = spinLog[e.id].data =>
                       LabelsUnderPointer(data', props', rotation') = LabelOf(e.item)]_vars

\* the items changed while the wheel was spinning to slice 0: the call handed
\* over reports "1", the label resting under the pointer is "k"
C25_Witness ==
    /\ Len(spinLog) = 1
    /\ AtRest
    /\ Len(jsQueue) = 1
    /\ jsQueue[1].index = 0
    /\ jsQueue[1].item = "1"
    /\ ScreenAngle(iconPositions(props.size, props.tapered)[1], rotation) = 0
    /\ LabelsUnderPointer(data, props, rotation) = {"k"}

----------------------------------------------------------------------------
\* the press of spin k as the earlier wheel would have taken it: the same
\* rotation value, random draw and items
PlainSpin(k) ==
    [id |-> k,
     targetIndex |-> spinLog[k].targetIndex,
     toValue |-> spinToValuePlain(spinLog[k].rotationAt, spinLog[k].targetIndex),
     data |-> normalizeDataPlain(props.items),
     onStop |-> spinLog[k].onStop]

(* C26: from the same rotation value, the same random draw and the same
   items, the earlier plain donut wheel normalizes the items to the same
   sequence, chooses the same target index, sets the same rotation target
   and hands the same (index, item) to onStop as the tapered/gapped wheel,
   although the two slice lists differ. *)
C26_SameSpinLogic ==
    /\ \A s \in {DEFAULT_ITEMS, ShortItems, LongItems, <<>>, props.items} :
           normalizeDataPlain(s) = normalizeData(s)
    /\ \A u \in RandomInputs : chooseTargetPlain(u) = chooseTarget(u)
    /\ \A k \in Spins :
           /\ PlainSpin(k).toValue = spinLog[k].toValue
           /\ PlainSpin(k).data = spinLog[k].data
           /\ \A f \in BOOLEAN :
                  animationCallbackPlain(PlainSpin(k), f, data)
                      = animationCallback(spinLog[k] @@ [id |-> k], f, data)
    /\ \A n \in 1..Len(stopLog) :
           animationCallbackPlain(PlainSpin(stopLog[n].id), TRUE, data)
               = <<[id |-> stopLog[n].id, index |-> stopLog[n].index,
                    item |-> stopLog[n].item]>>
    /\ \A n \in 1..Len(jsQueue) :
           animationCallbackPlain(PlainSpin(jsQueue[n].id), TRUE, data) = <<jsQueue[n]>>
    /\ slicesPlain(props.size)[1].path # slices(props.size, props.tapered)[1].path

\* a spin from -912 degrees to slice 6 has reported; the earlier wheel sets the
\* same target, 2473 degrees further counter-clockwise
C26_Witness ==
    /\ Len(spinLog) = 1
    /\ spinLog[1].rotationAt = -1824
    /\ spinLog[1].targetIndex = 6
    /\ spinToValuePlain(-1824, 6) = rotation
    /\ rotation = -1824 - 4521
    /\ Len(stopLog) = 1
    /\ stopLog[1].index = 6

----------------------------------------------------------------------------
(* C27: on the home dashboard 'All Videos' is the active filter at the start
   and exactly one chip is active in every state; pressing a chip, which is
   always possible, makes its filter the active one; the grid shows all four
   feature cards under 'All Videos' and exactly the one card with the
   filter's title otherwise, in both dashboards; a change of the search text
   changes the query only, not the active filter nor the cards shown. *)
C27_OneActiveFilter ==
    /\ home.activeFilter = "All Videos"
    /\ [](Cardinality(activeChips) = 1)
    /\ [](\A n \in 1..Len(FILTERS) : ENABLED PressChip(FILTERS[n]))
    /\ [][\A n \in 1..Len(FILTERS) :
             PressChip(FILTERS[n]) =>
                 (home'.activeFilter = FILTERS[n] /\ home'.query = home.query)]_vars
    /\ [](IF home.activeFilter = "All Videos"
          THEN /\ filteredCards(home.activeFilter) = FEATURE_CARDS
               /\ Len(filteredCards(home.activeFilter)) = 4
               /\ filteredCardsEmoji(home.activeFilter) = FEATURE_CARDS_EMOJI
          ELSE /\ Len(filteredCards(home.activeFilter)) = 1
               /\ filteredCards(home.activeFilter)[1].title = home.activeFilter
               /\ Len(filteredCardsEmoji(home.activeFilter)) = 1
               /\ filteredCardsEmoji(home.activeFilter)[1].title = home.activeFilter)
    /\ [][home'.query # home.query =>
             /\ home'.activeFilter = home.activeFilter
             /\ filteredCards(home'.activeFilter) = filteredCards(home.activeFilter)]_vars

\* 'Photos' was pressed and a text typed: one card is shown
C27_Witness ==
    /\ home.activeFilter = "Photos"
    /\ home.query = <<"a", "b">>
    /\ activeChips = {3}
    /\ filteredCards(home.activeFilter) = <<FEATURE_CARDS[3]>>

----------------------------------------------------------------------------
\* the two ends of the rounded tip of a wedge path, as angles past startAngle
TipRightOffset(path, startAngle) == (PointAngle(path[3].to) - Fine(startAngle)) % FullTurn
TipLeftOffset(path, startAngle) == (PointAngle(path[4].to) - Fine(startAngle)) % FullTurn

(* C28: in the path roundedWedgePath returns for a slice of positive width,
   the rounded tip is min(8, (endAngle - startAngle)/3) degrees wide, both of
   its ends lie strictly between startAngle and endAngle, and it is centred
   on the mid angle of the slice. *)
C28_TipInsideSlice ==
    (geo.helper = "roundedWedgePath" /\ geo.endAngle > geo.startAngle) =>
        LET span == Fine(geo.endAngle - geo.startAngle)
            right == TipRightOffset(geo.path, geo.startAngle)
            left == TipLeftOffset(geo.path, geo.startAngle)
        IN /\ geo.path[3].cmd = "L"
           /\ geo.path[4].cmd = "A"
           /\ left - right = Min(Fine(HalfDeg(8)), span \div 3)
           /\ 0 < right
           /\ right < left
           /\ left < span
           /\ right + left = span
           /\ geo.path[3].to.r = geo.path[4].to.r
           /\ geo.path[4].r = geo.path[4].to.r

\* a wedge of 10 degrees: its tip is a third of it wide, not 8 degrees
C28_Witness ==
    /\ geo.helper = "roundedWedgePath"
    /\ geo.startAngle = HalfDeg(40)
    /\ geo.endAngle = HalfDeg(50)
    /\ TipLeftOffset(geo.path, geo.startAngle) - TipRightOffset(geo.path, geo.startAngle)
           = Fine(HalfDeg(10)) \div 3
    /\ TipRightOffset(geo.path, geo.startAngle) > 0

====
